---------------------------- MODULE Spec2Model ----------------------------
(***************************************************************************)
(* Model of ecr-cleanup (src/main.go and the CleanupWithClient wrapper).   *)
(*                                                                         *)
(* Conventions.  A Go pointer or optional field is a sequence of length    *)
(* at most one: << >> is nil, <<v>> is a pointer to v.  A slice is a       *)
(* sequence; Go's 0-based index i is position i+1.  Time is an integer     *)
(* number of days; a tag or digest string is a pair <<kind, number>>.      *)
(***************************************************************************)
EXTENDS Integers, Sequences, FiniteSets, TLC

VARIABLES
    cfg,          \* Config: DryRun, Days, MaxImages
    now,          \* the clock read by time.Now()
    listing,      \* registry side: the pages of repository names
    content,      \* registry side: repository name -> its entry of Catalogue
    pc,           \* position of the run
    repos,        \* getRepositories: repositories accumulated so far
    nextToken,    \* getRepositories / getImageDetails: continuation token
    repoIdx,      \* CleanupWithClient: 0-based index of the range loop
    listResp,     \* getImageDetails: the last ListImages response
    images,       \* processRepository: the image details of the repository
    cutoffTime,   \* selectImagesForDeletion: cutoffTime (nil before a call)
    toDelete,     \* processRepository: the deletion set
    i,            \* deleteImages: 0-based start of the next batch
    repoSummary,  \* processRepository: the summary it returns
    procErr,      \* processRepository: the error it returns ("nil" if none)
    summary,      \* CleanupWithClient: the aggregate summary
    err,          \* CleanupWithClient: the error it returns ("nil" if none)
    calls,        \* every registry call issued so far, in order
    returns,      \* what each processRepository call returned, in order
    log,          \* the run report lines that carry image labels
    exitCode      \* MainEntryWithClient: the exit code (nil before it returns)

vars == <<cfg, now, listing, content, pc, repos, nextToken, repoIdx, listResp,
          images, cutoffTime, toDelete, i, repoSummary, procErr, summary,
          err, calls, returns, log, exitCode>>

--------------------------------------------------------------------------
(* Bounds of the model *)

MaxImgs == 3      \* longest image list drawn exhaustively
MaxTime == 2      \* push times are drawn from 0..MaxTime
MaxDays == 2      \* Days is drawn from -1..MaxDays
MaxKeep == 2      \* MaxImages is drawn from -1..MaxKeep
MaxRepos == 2     \* most repositories the registry lists
MaxBulk == 201    \* longest list handed to deleteImages on its own

Now0 == MaxTime
MaxNow == MaxTime + 1

(* A batch size above the limit of the API *)
batchSize_Over == 100 + 1

(* AWS API limit, const batchSize in deleteImages *)
batchSize == 100

--------------------------------------------------------------------------
(* Helpers *)

Range(s) == {s[k] : k \in DOMAIN s}

Min(a, b) == IF a < b THEN a ELSE b

(* The sum of s[lo..hi], by halves to keep the recursion shallow *)
RECURSIVE SumFromTo(_, _, _)
SumFromTo(s, lo, hi) ==
    IF lo > hi THEN 0
    ELSE IF lo = hi THEN s[lo]
    ELSE SumFromTo(s, lo, (lo + hi) \div 2) + SumFromTo(s, (lo + hi) \div 2 + 1, hi)

(* The sum of a sequence of numbers (the sequence is bound as a value, so
   that it is evaluated once) *)
SumSeq(s) == CHOOSE n \in {SumFromTo(v, 1, Len(v)) : v \in {s}} : TRUE

RECURSIVE Pow2(_)
Pow2(n) == IF n <= 0 THEN 1 ELSE 2 * Pow2(n - 1)

(* types.ImageDetail: the fields the program reads *)
ImageDetail(tags, digest, pushedAt, size) ==
    [ImageTags |-> tags, ImageDigest |-> digest,
     ImagePushedAt |-> pushedAt, ImageSizeInBytes |-> size]

(* Config *)
Config(dryRun, days, maxImages) ==
    [DryRun |-> dryRun, Days |-> days, MaxImages |-> maxImages]

(* CleanupSummary *)
CleanupSummary(r, d, s) ==
    [RepositoriesProcessed |-> r, ImagesDeleted |-> d, SpaceFreed |-> s]

(* types.ImageIdentifier *)
ImageIdentifier(tag, digest) == [ImageTag |-> tag, ImageDigest |-> digest]

--------------------------------------------------------------------------
(* sortImagesByPushedTime *)

(* The comparison turned round: Before in place of After *)
less_OldestFirst(a, b) ==
    IF a.ImagePushedAt = << >> THEN FALSE
    ELSE IF b.ImagePushedAt = << >> THEN TRUE
    ELSE a.ImagePushedAt[1] < b.ImagePushedAt[1]

(* The nil cases swapped: an image without a push time sorts first *)
less_NilFirst(a, b) ==
    IF b.ImagePushedAt = << >> THEN FALSE
    ELSE IF a.ImagePushedAt = << >> THEN TRUE
    ELSE a.ImagePushedAt[1] > b.ImagePushedAt[1]

(* The less closure handed to sort.Slice *)
less(a, b) ==
    IF a.ImagePushedAt = << >> THEN FALSE
    ELSE IF b.ImagePushedAt = << >> THEN TRUE
    ELSE a.ImagePushedAt[1] > b.ImagePushedAt[1]

IsSortedBy(s) ==
    \A j, k \in DOMAIN s : j < k => ~less(s[k], s[j])

(* Number of elements that must precede s[k] *)
Before(s, k) == Cardinality({j \in DOMAIN s : less(s[j], s[k])})

HasTies(s) ==
    \E j, k \in DOMAIN s : j < k /\ ~less(s[j], s[k]) /\ ~less(s[k], s[j])

(* sort.Slice is not stable: every permutation of the input that is ordered
   by less is a possible outcome.  Without ties there is exactly one. *)
sortImagesByPushedTime(s) ==
    IF ~HasTies(s)
    THEN {[p \in DOMAIN s |-> s[CHOOSE k \in DOMAIN s : rank[k] = p - 1]] \o << >> :
             rank \in {[k \in DOMAIN s |-> Before(s, k)] \o << >>}}
    ELSE {t \in {[p \in DOMAIN s |-> s[f[p]]] : f \in Permutations(DOMAIN s)} :
             IsSortedBy(t)}

--------------------------------------------------------------------------
(* selectImagesForDeletion *)

(* keepCount one short: the newest image but one loses its exemption *)
keepCount_Short(n, c) ==
    IF c.MaxImages > 0
    THEN (IF c.MaxImages > n THEN n ELSE c.MaxImages) - 1
    ELSE 0

keepCount(n, c) ==
    IF c.MaxImages > 0
    THEN (IF c.MaxImages > n THEN n ELSE c.MaxImages)
    ELSE 0

(* The age test with "not after" in place of "before" *)
Eligible_NotAfter(img, k, keep, cutoff) ==
    /\ ~(k < keep)
    /\ img.ImagePushedAt # << >>
    /\ img.ImagePushedAt[1] <= cutoff

(* The age test without the nil check: a nil time reads as the zero time *)
Eligible_NilIsOld(img, k, keep, cutoff) ==
    /\ ~(k < keep)
    /\ (img.ImagePushedAt = << >> \/ img.ImagePushedAt[1] < cutoff)

(* The test of the range loop: is the image at 0-based index k appended? *)
Eligible(img, k, keep, cutoff) ==
    /\ ~(k < keep)
    /\ img.ImagePushedAt # << >>
    /\ img.ImagePushedAt[1] < cutoff

(* The range loop over the 0-based indexes lo..hi, in index order (by
   halves to keep the recursion shallow) *)
RECURSIVE SelectLoop(_, _, _, _, _)
SelectLoop(sorted, lo, hi, keep, cutoff) ==
    IF lo > hi THEN << >>
    ELSE IF lo = hi
    THEN (IF Eligible(sorted[lo + 1], lo, keep, cutoff)
          THEN <<sorted[lo + 1]>> ELSE << >>)
    ELSE SelectLoop(sorted, lo, (lo + hi) \div 2, keep, cutoff)
         \o SelectLoop(sorted, (lo + hi) \div 2 + 1, hi, keep, cutoff)

(* The part of selectImagesForDeletion after the sort *)
selectImagesForDeletion(sorted, c, cutoff) ==
    SelectLoop(sorted, 0, Len(sorted) - 1, keepCount(Len(sorted), c), cutoff)

(* A negative number of days is taken for zero *)
CutoffOf_Clamped(t, c) == t - (IF c.Days < 0 THEN 0 ELSE c.Days)

(* cutoffTime := time.Now().AddDate(0, 0, -cfg.Days) *)
CutoffOf(t, c) == t - c.Days

--------------------------------------------------------------------------
(* getImageTag, getImageIdString and the identifier built by deleteImages *)

CanLabel(img) == Len(img.ImageTags) > 0 \/ img.ImageDigest # << >>

(* getImageTag; dereferences a nil digest when CanLabel is false *)
getImageTag(img) ==
    IF Len(img.ImageTags) > 0 THEN img.ImageTags[1] ELSE img.ImageDigest[1]

(* The identifier with the digest set on a tagged image as well *)
ToImageId_Both(img) ==
    IF Len(img.ImageTags) > 0
    THEN ImageIdentifier(<<img.ImageTags[1]>>, img.ImageDigest)
    ELSE ImageIdentifier(<< >>, img.ImageDigest)

(* The body of the inner loop of deleteImages *)
ToImageId(img) ==
    IF Len(img.ImageTags) > 0
    THEN ImageIdentifier(<<img.ImageTags[1]>>, << >>)
    ELSE ImageIdentifier(<< >>, img.ImageDigest)

Unknown == <<"unknown", 0>>

(* getImageIdString; id is a pointer to an ImageIdentifier *)
getImageIdString(id) ==
    IF id = << >> THEN Unknown
    ELSE IF id[1].ImageTag # << >> THEN id[1].ImageTag[1]
    ELSE IF id[1].ImageDigest # << >> THEN id[1].ImageDigest[1]
    ELSE Unknown

--------------------------------------------------------------------------
(* The registry's answers *)

(* types.ImageFailure: ImageId is a pointer, FailureReason is always set *)
ImageFailure(id) == [ImageId |-> id, FailureReason |-> "reason"]

(* The answers BatchDeleteImage can give to a request for imageIds: a
   transport error, or a response that lists per-item failures *)
BatchDeleteImageAnswers(imageIds) ==
    {[ok |-> FALSE, Failures |-> << >>]} \cup
    {[ok |-> TRUE, Failures |-> f] :
        f \in {<< >>,
               <<ImageFailure(<<imageIds[1]>>)>>,
               <<ImageFailure(<< >>), ImageFailure(<<imageIds[Len(imageIds)]>>)>>}}

--------------------------------------------------------------------------
(* processRepository, from the selection on *)

(* The list is walked from its end *)
repoName_Reverse == repos[Len(repos) - repoIdx]

(* for _, repo := range repos *)
repoName == repos[repoIdx + 1]

SizeOf(img) ==
    IF img.ImageSizeInBytes # << >> THEN img.ImageSizeInBytes[1] ELSE 0

(* The sizes of all the images of the repository are summed *)
SpaceOf_All(sel) == SumSeq([k \in DOMAIN images |-> SizeOf(images[k])])

(* The "space to be freed" loop of processRepository *)
SpaceOf(sel) == SumSeq([k \in DOMAIN sel |-> SizeOf(sel[k])])

(* The dry-run report: one line per image, up to the first image whose
   label cannot be computed *)
DryRunLines(name, sel) ==
    LET bad == {k \in DOMAIN sel : ~CanLabel(sel[k])}
        n == IF bad = {} THEN Len(sel)
             ELSE (CHOOSE k \in bad : \A m \in bad : k <= m) - 1
    IN [k \in 1..n |->
          [kind |-> "dryrun", repo |-> name, label |-> getImageTag(sel[k])]]

(* The early return is never taken *)
NothingToDelete_Never(sel) == FALSE

(* if len(toDelete) == 0 *)
NothingToDelete(sel) == Len(sel) = 0

(* The flag is not consulted *)
IsDryRun_Off(c) == FALSE

(* if cfg.DryRun *)
IsDryRun(c) == c.DryRun

(* processRepository, lines 167-203: select, count, sum, dry-run report *)
ProcessSelect ==
    /\ pc = "select"
    /\ \E t \in now..MaxNow, sorted \in sortImagesByPushedTime(images) :
       \E cut \in {CutoffOf(t, cfg)} :
       \E sel \in {selectImagesForDeletion(sorted, cfg, cut)} :
            /\ now' = t
            /\ images' = sorted
            /\ cutoffTime' = <<cut>>
            /\ toDelete' = sel
            /\ i' = 0
            /\ IF NothingToDelete(sel)
               THEN /\ repoSummary' = CleanupSummary(1, 0, 0)
                    /\ procErr' = "nil"
                    /\ pc' = "procReturn"
                    /\ log' = log
               ELSE /\ repoSummary' = CleanupSummary(1, Len(sel), SpaceOf(sel))
                    /\ procErr' = "nil"
                    /\ IF IsDryRun(cfg)
                       THEN /\ log' = log \o DryRunLines(repoName, sel)
                            /\ pc' = IF \A k \in DOMAIN sel : CanLabel(sel[k])
                                     THEN "procReturn" ELSE "panic"
                       ELSE /\ log' = log
                            /\ pc' = "delete"
    /\ UNCHANGED <<cfg, listing, content, repos, nextToken, repoIdx, listResp,
                   summary, err, calls, returns, exitCode>>

--------------------------------------------------------------------------
(* deleteImages *)

BatchEnd == Min(i + batchSize, Len(toDelete))

Batch == SubSeq(toDelete, i + 1, BatchEnd)

ImageIdsOf(batch) == [j \in DOMAIN batch |-> ToImageId(batch[j])]

FailureLines(fs) ==
    [k \in DOMAIN fs |->
        [kind |-> "failure", label |-> getImageIdString(fs[k].ImageId)]]

(* A response that lists failures is taken for a failed call *)
CallFailed_OnFailures(ans) == ~ans.ok \/ ans.Failures # << >>

(* if err != nil, on the answer of BatchDeleteImage *)
CallFailed(ans) == ~ans.ok

(* The loop variable is left where it was *)
NextBatch_Same == i

(* i += batchSize *)
NextBatch == i + batchSize

(* One iteration of the batch loop: build the identifiers, call
   BatchDeleteImage, return on a transport error, else log and advance *)
BatchDeleteImageCall ==
    /\ pc = "delete"
    /\ i < Len(toDelete)
    /\ \E ans \in BatchDeleteImageAnswers(ImageIdsOf(Batch)) :
         /\ calls' = Append(calls, [op |-> "BatchDeleteImage", repo |-> repoName,
                                    ids |-> ImageIdsOf(Batch), ok |-> ans.ok,
                                    failures |-> ans.Failures])
         /\ IF ~CallFailed(ans)
            THEN /\ log' = log \o <<[kind |-> "deleted", repo |-> repoName,
                                    n |-> Len(Batch)]>>
                             \o FailureLines(ans.Failures)
                 /\ i' = NextBatch
                 /\ UNCHANGED <<pc, procErr>>
            ELSE /\ procErr' = "delete"
                 /\ pc' = "procReturn"
                 /\ UNCHANGED <<log, i>>
    /\ UNCHANGED <<cfg, now, listing, content, repos, nextToken, repoIdx,
                   listResp, images, cutoffTime, toDelete, repoSummary,
                   summary, err, returns, exitCode>>

(* The batch loop ends: deleteImages and processRepository return nil *)
DeleteImagesReturn ==
    /\ pc = "delete"
    /\ ~(i < Len(toDelete))
    /\ procErr' = "nil"
    /\ pc' = "procReturn"
    /\ UNCHANGED <<cfg, now, listing, content, repos, nextToken, repoIdx,
                   listResp, images, cutoffTime, toDelete, i, repoSummary,
                   summary, err, calls, log, returns, exitCode>>

--------------------------------------------------------------------------
(* The images of the registry *)

Repo(n) == <<"repo", n>>

RepoSeq(lo, hi) == [k \in 1..(hi - lo + 1) |-> Repo(lo + k - 1)]

Tag(n) == <<"tag", n>>
Alt(n) == <<"alt", n>>
Digest(n) == <<"sha256", n>>

OptTimes == {<< >>} \cup {<<t>> : t \in 0..MaxTime}

(* Sizes are powers of two, so that a sum tells which images it counts *)
SizeFor(n) == Pow2((n - 1) % 16)

(* The n-th image of a list, of one of four shapes: two tags, untagged,
   one tag, and the malformed image with neither tag nor digest *)
ImageOf(n, shape, pushedAt) ==
    CASE shape = 0 -> ImageDetail(<<Tag(n), Alt(n)>>, <<Digest(n)>>, pushedAt, <<SizeFor(n)>>)
      [] shape = 1 -> ImageDetail(<< >>, <<Digest(n)>>, pushedAt, << >>)
      [] shape = 2 -> ImageDetail(<<Tag(n)>>, <<Digest(n)>>, pushedAt, <<SizeFor(n)>>)
      [] OTHER     -> ImageDetail(<< >>, << >>, pushedAt, <<SizeFor(n)>>)

(* Every image list of length <= MaxImgs over OptTimes; the shapes rotate
   along the list from the offset sh *)
ImageLists ==
    UNION {{[n \in 1..len |-> ImageOf(n, (n + sh) % 4, ts[n])] :
               ts \in [1..len -> OptTimes], sh \in 0..3} : len \in 0..MaxImgs}

(* A list of n images pushed on distinct days before day 0 *)
BulkList(n) == [k \in 1..n |-> ImageOf(k, k % 3, <<0 - k>>)]

(* More than one batch: a full page of batchSize images and one more *)
BulkPages == <<SubSeq(BulkList(batchSize + 1), 1, batchSize),
               SubSeq(BulkList(batchSize + 1), batchSize + 1, batchSize + 1)>>

(* The contents a repository can have: empty; one old image; two pages
   with a new, an old, an undated and a middle-aged image; an empty page
   before a page; a malformed image tied with a sound one; many images *)
Catalogue ==
    << << << >> >>,
      << <<ImageOf(1, 2, <<0>>)>> >>,
      << <<ImageOf(1, 0, <<MaxTime>>), ImageOf(2, 1, <<0>>)>>,
         <<ImageOf(3, 2, << >>), ImageOf(4, 2, <<1>>)>> >>,
      << << >>, <<ImageOf(1, 1, <<0>>)>> >>,
      << <<ImageOf(1, 3, <<0>>), ImageOf(2, 0, <<0>>)>> >>,
      BulkPages >>

(* The pages of image details of a repository *)
Pages(name) == Catalogue[content[name]]

--------------------------------------------------------------------------
(* getRepositories *)

(* The continuation token of page k of n: nil on the last page *)
TokenAfter(k, n) == IF k < n THEN <<k + 1>> ELSE << >>

(* The page a token asks for: the first page for a nil token *)
PageOf(token) == IF token = << >> THEN 1 ELSE token[1]

(* The page replaces what was accumulated *)
AppendPage_Replace(all, page) == page

(* repositories = append(repositories, resp.Repositories...) *)
AppendPage(all, page) == all \o page

(* The repositories of the earlier pages are processed all the same *)
OnRepositoriesError_Partial == "range"

(* if err != nil { return summary, err } after getRepositories *)
OnRepositoriesError == "done"

(* One iteration of the loop of getRepositories.  A failed call makes
   CleanupWithClient return the zero summary and the error; the last page
   makes it set RepositoriesProcessed and enter the range loop *)
DescribeRepositoriesCall ==
    /\ pc = "getRepositories"
    /\ \E ok \in BOOLEAN :
         /\ calls' = Append(calls, [op |-> "DescribeRepositories",
                                    token |-> nextToken, ok |-> ok])
         /\ IF ok
            THEN LET k == PageOf(nextToken)
                     token == TokenAfter(k, Len(listing))
                 IN /\ repos' = AppendPage(repos, listing[k])
                    /\ nextToken' = token
                    /\ IF token = << >>
                       THEN /\ summary' = [summary EXCEPT
                                   !.RepositoriesProcessed = Len(repos')]
                            /\ pc' = "range"
                       ELSE UNCHANGED <<summary, pc>>
                    /\ err' = err
            ELSE /\ err' = "error"
                 /\ pc' = OnRepositoriesError
                 /\ UNCHANGED <<repos, nextToken, summary>>
    /\ UNCHANGED <<cfg, now, listing, content, repoIdx, listResp, images,
                   cutoffTime, toDelete, i, repoSummary, procErr, log, returns,
                   exitCode>>

--------------------------------------------------------------------------
(* CleanupWithClient: the range loop *)

(* The details of the repositories before stay in the slice *)
NewImageDetails_Kept(old) == old

(* var imageDetails []types.ImageDetail, at the entry of getImageDetails *)
NewImageDetails(old) == << >>

(* The loop condition: the next repository enters processRepository, or
   CleanupWithClient returns the summary and a nil error *)
RangeRepos ==
    /\ pc = "range"
    /\ IF repoIdx < Len(repos)
       THEN /\ repoSummary' = CleanupSummary(1, 0, 0)
            /\ procErr' = "nil"
            /\ images' = NewImageDetails(images)
            /\ nextToken' = << >>
            /\ pc' = "listImages"
            /\ err' = err
       ELSE /\ err' = "nil"
            /\ pc' = "done"
            /\ UNCHANGED <<repoSummary, procErr, images, nextToken>>
    /\ UNCHANGED <<cfg, now, listing, content, repos, repoIdx, listResp,
                   cutoffTime, toDelete, i, summary, calls, log, returns,
                   exitCode>>

(* The counts are added whatever processRepository returned *)
Accumulate_Always(sum, rs, e) ==
    [sum EXCEPT !.ImagesDeleted = @ + rs.ImagesDeleted,
                !.SpaceFreed = @ + rs.SpaceFreed]

(* Only the repositories that succeeded stay counted *)
Accumulate_Discount(sum, rs, e) ==
    IF e # "nil" THEN [sum EXCEPT !.RepositoriesProcessed = @ - 1]
    ELSE [sum EXCEPT !.ImagesDeleted = @ + rs.ImagesDeleted,
                     !.SpaceFreed = @ + rs.SpaceFreed]

(* The counts are assigned, not added *)
Accumulate_Assign(sum, rs, e) ==
    IF e # "nil" THEN sum
    ELSE [sum EXCEPT !.ImagesDeleted = rs.ImagesDeleted,
                     !.SpaceFreed = rs.SpaceFreed]

(* The body of the range loop after processRepository: on an error the
   summary is left alone (continue), otherwise the counts are added *)
Accumulate(sum, rs, e) ==
    IF e # "nil" THEN sum
    ELSE [sum EXCEPT !.ImagesDeleted = @ + rs.ImagesDeleted,
                     !.SpaceFreed = @ + rs.SpaceFreed]

(* The first failed repository ends the run *)
AfterRepository_Abort(e) == IF e # "nil" THEN "done" ELSE "range"

(* Where the loop goes after processRepository returned e: on *)
AfterRepository(e) == "range"

(* processRepository has returned: an error is logged and the repository
   skipped, otherwise its counts are added; then the next iteration *)
RepositoryReturn ==
    /\ pc = "procReturn"
    /\ log' = IF procErr # "nil"
              THEN Append(log, [kind |-> "error", repo |-> repoName])
              ELSE log
    /\ summary' = Accumulate(summary, repoSummary, procErr)
    /\ returns' = Append(returns, [repo |-> repoName, err |-> procErr,
                                   summary |-> repoSummary])
    /\ repoIdx' = repoIdx + 1
    /\ pc' = AfterRepository(procErr)
    /\ UNCHANGED <<cfg, now, listing, content, repos, nextToken, listResp,
                   images, cutoffTime, toDelete, i, repoSummary, procErr,
                   err, calls, exitCode>>

--------------------------------------------------------------------------
(* getImageDetails *)

NoListResp == [ImageIds |-> << >>, NextToken |-> << >>]

(* The identifier the registry lists for an image *)
ListedId(img) ==
    ImageIdentifier(IF Len(img.ImageTags) > 0 THEN <<img.ImageTags[1]>> ELSE << >>,
                    img.ImageDigest)

(* The ListImages response for page k of a repository *)
ListImagesOutput(name, k) ==
    [ImageIds |-> [j \in DOMAIN Pages(name)[k] |-> ListedId(Pages(name)[k][j])],
     NextToken |-> TokenAfter(k, Len(Pages(name)))]

(* The DescribeImages response for the identifiers of page k *)
DescribeImagesOutput(name, k) == Pages(name)[k]

(* DescribeImages is called for a page without identifiers as well *)
HasImageIds_Always(resp) == TRUE

(* if len(listResp.ImageIds) > 0 *)
HasImageIds(resp) == Len(resp.ImageIds) > 0

(* The call is made again *)
AfterListImagesError_Retry == "listImages"

(* if err != nil { return nil, ... } after ListImages, and the return of
   processRepository that follows *)
AfterListImagesError == "procReturn"

(* The first half of an iteration of getImageDetails: ListImages.  An
   error makes processRepository return it; a page without identifiers
   skips DescribeImages *)
ListImagesCall ==
    /\ pc = "listImages"
    /\ \E ok \in BOOLEAN :
         /\ calls' = Append(calls, [op |-> "ListImages", repo |-> repoName,
                                    token |-> nextToken, ok |-> ok])
         /\ IF ok
            THEN LET resp == ListImagesOutput(repoName, PageOf(nextToken))
                 IN /\ listResp' = resp
                    /\ procErr' = procErr
                    /\ IF HasImageIds(resp)
                       THEN /\ pc' = "describeImages"
                            /\ nextToken' = nextToken
                       ELSE /\ nextToken' = resp.NextToken
                            /\ pc' = IF resp.NextToken = << >>
                                     THEN "select" ELSE "listImages"
            ELSE /\ procErr' = "fetch"
                 /\ pc' = AfterListImagesError
                 /\ UNCHANGED <<listResp, nextToken>>
    /\ UNCHANGED <<cfg, now, listing, content, repos, repoIdx, images,
                   cutoffTime, toDelete, i, repoSummary, summary, err, log, returns,
                   exitCode>>

(* The selection goes ahead with the images of the earlier pages *)
AfterDescribeImagesError_Partial == "select"

(* if err != nil { return nil, err } after DescribeImages, and the return
   of processRepository that follows *)
AfterDescribeImagesError == "procReturn"

(* The second half: DescribeImages for the identifiers just listed *)
DescribeImagesCall ==
    /\ pc = "describeImages"
    /\ \E ok \in BOOLEAN :
         /\ calls' = Append(calls, [op |-> "DescribeImages", repo |-> repoName,
                                    ids |-> listResp.ImageIds, ok |-> ok])
         /\ IF ok
            THEN /\ images' = images \o DescribeImagesOutput(repoName, PageOf(nextToken))
                 /\ nextToken' = listResp.NextToken
                 /\ pc' = IF listResp.NextToken = << >>
                          THEN "select" ELSE "listImages"
                 /\ procErr' = procErr
            ELSE /\ procErr' = "fetch"
                 /\ pc' = AfterDescribeImagesError
                 /\ UNCHANGED <<images, nextToken>>
    /\ UNCHANGED <<cfg, now, listing, content, repos, repoIdx, listResp,
                   cutoffTime, toDelete, i, repoSummary, summary, err, log, returns,
                   exitCode>>

--------------------------------------------------------------------------
(* MainEntryWithClient *)

(* The error is reported and the exit code is 0 all the same *)
ExitCodeOf_Zero(e) == 0

(* if err != nil { return 1 } ... return 0 *)
ExitCodeOf(e) == IF e # "nil" THEN 1 ELSE 0

(* CleanupWithClient has returned: the entry point returns its exit code *)
MainEntryReturn ==
    /\ pc = "done"
    /\ exitCode' = <<ExitCodeOf(err)>>
    /\ pc' = "exit"
    /\ UNCHANGED <<cfg, now, listing, content, repos, nextToken, repoIdx,
                   listResp, images, cutoffTime, toDelete, i, repoSummary,
                   procErr, summary, err, calls, returns, log>>

--------------------------------------------------------------------------
(* Inputs of processRepository *)

Configs ==
    {Config(d, days, keep) :
        d \in BOOLEAN, days \in (0 - 1)..MaxDays, keep \in (0 - 1)..MaxKeep}

(* processRepository of one repository whose images have been fetched *)
InitProcess ==
    /\ cfg \in Configs
    /\ now = Now0
    /\ images \in ImageLists
    /\ listing = <<<<Repo(1)>>>>
    /\ content = << >>
    /\ pc = "select"
    /\ repos = <<Repo(1)>>
    /\ nextToken = << >>
    /\ repoIdx = 0
    /\ listResp = NoListResp
    /\ cutoffTime = << >>
    /\ toDelete = << >>
    /\ i = 0
    /\ repoSummary = CleanupSummary(1, 0, 0)
    /\ procErr = "nil"
    /\ summary = CleanupSummary(1, 0, 0)
    /\ err = "nil"
    /\ calls = << >>
    /\ returns = << >>
    /\ log = << >>
    /\ exitCode = << >>

NextProcess == ProcessSelect \/ BatchDeleteImageCall \/ DeleteImagesReturn

SpecProcess == InitProcess /\ [][NextProcess]_vars

--------------------------------------------------------------------------
(* deleteImages on its own, for a list of any length up to MaxBulk *)

InitDelete ==
    /\ cfg = Config(FALSE, 1, 0)
    /\ now = Now0
    /\ \E n \in 0..MaxBulk : toDelete = BulkList(n)
    /\ images = toDelete
    /\ listing = <<<<Repo(1)>>>>
    /\ content = << >>
    /\ pc = "delete"
    /\ repos = <<Repo(1)>>
    /\ nextToken = << >>
    /\ repoIdx = 0
    /\ listResp = NoListResp
    /\ cutoffTime = <<Now0 - 1>>
    /\ i = 0
    /\ repoSummary = CleanupSummary(1, Len(toDelete), SpaceOf(toDelete))
    /\ procErr = "nil"
    /\ summary = CleanupSummary(1, 0, 0)
    /\ err = "nil"
    /\ calls = << >>
    /\ returns = << >>
    /\ log = << >>
    /\ exitCode = << >>

NextDelete == BatchDeleteImageCall \/ DeleteImagesReturn

SpecDelete == InitDelete /\ [][NextDelete]_vars

--------------------------------------------------------------------------
(* The whole run: CleanupWithClient against a registry *)

(* The listings of n repositories: on one page, or cut into two pages at
   any point (a page may be empty) *)
Listings(n) ==
    {<<RepoSeq(1, n)>>} \cup
    {<<RepoSeq(1, cut), RepoSeq(cut + 1, n)>> : cut \in 0..n}

RunConfigs ==
    {Config(d, 1, keep) : d \in BOOLEAN, keep \in 0..1}

Init ==
    /\ cfg \in RunConfigs
    /\ now = Now0
    /\ \E n \in 0..MaxRepos :
         /\ listing \in Listings(n)
         /\ content \in [{Repo(k) : k \in 1..n} -> DOMAIN Catalogue]
    /\ pc = "getRepositories"
    /\ repos = << >>
    /\ nextToken = << >>
    /\ repoIdx = 0
    /\ listResp = NoListResp
    /\ images = << >>
    /\ cutoffTime = << >>
    /\ toDelete = << >>
    /\ i = 0
    /\ repoSummary = CleanupSummary(0, 0, 0)
    /\ procErr = "nil"
    /\ summary = CleanupSummary(0, 0, 0)
    /\ err = "nil"
    /\ calls = << >>
    /\ returns = << >>
    /\ log = << >>
    /\ exitCode = << >>

Next ==
    \/ DescribeRepositoriesCall
    \/ RangeRepos
    \/ ListImagesCall
    \/ DescribeImagesCall
    \/ ProcessSelect
    \/ BatchDeleteImageCall
    \/ DeleteImagesReturn
    \/ RepositoryReturn
    \/ MainEntryReturn

Spec == Init /\ [][Next]_vars

--------------------------------------------------------------------------
(* Vocabulary of the properties *)

(* CleanupWithClient has returned *)
Returned == pc \in {"done", "exit"}

Known(img) == img.ImagePushedAt # << >>

PushedAt(img) == img.ImagePushedAt[1]

(* selectImagesForDeletion has run on images *)
Selected == cutoffTime # << >> /\ pc \in {"delete", "procReturn", "panic"} /\ procErr # "fetch"

(* Known push times never increase along s and no undated image precedes a
   dated one *)
NewestFirst(s) ==
    \A j, k \in DOMAIN s :
        (j < k /\ Known(s[k])) => (Known(s[j]) /\ PushedAt(s[j]) >= PushedAt(s[k]))

DeleteCalls == SelectSeq(calls, LAMBDA c : c.op = "BatchDeleteImage")

--------------------------------------------------------------------------
(* C1.  Age-cutoff correctness: after selectImagesForDeletion the images
   are in newest-first order, and an image with a known push time is in
   the deletion set if and only if its push time is strictly before the
   cutoff (now - Days) and its 0-based rank in that order is at least
   MaxImages (or MaxImages is 0). *)
C1_AgeCutoff ==
    Selected =>
        /\ NewestFirst(images)
        /\ \A k \in DOMAIN images :
             Known(images[k]) =>
                 (images[k] \in Range(toDelete)
                    <=> /\ PushedAt(images[k]) < cutoffTime[1]
                        /\ (k - 1 >= cfg.MaxImages \/ cfg.MaxImages = 0))

(* Of three dated images past the cutoff, the first two pushed on the same
   day, the first is exempt by rank and the other two are selected *)
C1_Witness ==
    /\ Selected
    /\ cfg.MaxImages = 1
    /\ Len(images) = 3
    /\ Known(images[1]) /\ PushedAt(images[1]) = cutoffTime[1] - 1
    /\ Known(images[2]) /\ PushedAt(images[2]) = cutoffTime[1] - 1
    /\ Known(images[3]) /\ images[3] \in Range(toDelete)
    /\ images[1] \notin Range(toDelete) /\ images[2] \in Range(toDelete)

(* C2.  Unknown-timestamp safety: an image without a push timestamp is
   never in the deletion set, and the identifier of such an image is in no
   batch-delete request. *)
C2_UnknownNeverDeleted ==
    /\ \A k \in DOMAIN toDelete : Known(toDelete[k])
    /\ Selected =>
         \A k \in DOMAIN images :
             (~Known(images[k]) /\ CanLabel(images[k])) =>
                 \A m \in DOMAIN DeleteCalls :
                     ToImageId(images[k]) \notin Range(DeleteCalls[m].ids)

(* An undated image outside the keep window survives a delete call that
   removed an image past the cutoff *)
C2_Witness ==
    /\ Selected
    /\ cfg.MaxImages = 1
    /\ Len(images) = 3
    /\ ~Known(images[3]) /\ CanLabel(images[3])
    /\ Len(toDelete) = 1
    /\ Len(DeleteCalls) = 1 /\ DeleteCalls[1].ok

(* C3.  Keep-count exemption: with MaxImages = K > 0 and M >= K images that
   all have a known push time before the cutoff, exactly M - K images are
   selected and none of the K newest is. *)
C3_KeepCount ==
    (/\ Selected
     /\ cfg.MaxImages > 0
     /\ Len(images) >= cfg.MaxImages
     /\ \A k \in DOMAIN images :
          Known(images[k]) /\ PushedAt(images[k]) < cutoffTime[1])
    => /\ Len(toDelete) = Len(images) - cfg.MaxImages
       /\ \A k \in 1..cfg.MaxImages : images[k] \notin Range(toDelete)

(* Three images past the cutoff, two of them pushed on the same day, and
   K = 2 *)
C3_Witness ==
    /\ Selected
    /\ cfg.MaxImages = 2
    /\ Len(images) = 3
    /\ \A k \in DOMAIN images :
         Known(images[k]) /\ PushedAt(images[k]) < cutoffTime[1]
    /\ PushedAt(images[2]) = PushedAt(images[3])
    /\ Len(toDelete) = 1

--------------------------------------------------------------------------
(* More vocabulary *)

(* The registry's limit on the identifiers of one BatchDeleteImage call *)
BatchLimit == 100

CeilDiv(n, d) == (n + d - 1) \div d

IsDelete(c) == c.op = "BatchDeleteImage"

DeleteCallsOf(name) == SelectSeq(calls, LAMBDA c : IsDelete(c) /\ c.repo = name)

(* The identifier an image is to be deleted by: its first tag alone, or
   else its digest alone *)
TagElseDigest(img, id) ==
    IF Len(img.ImageTags) > 0
    THEN id.ImageTag = <<img.ImageTags[1]>> /\ id.ImageDigest = << >>
    ELSE id.ImageTag = << >> /\ id.ImageDigest = img.ImageDigest

(* The sum of the sizes that are known *)
KnownBytes(sel) ==
    SumSeq([k \in DOMAIN sel |->
              IF sel[k].ImageSizeInBytes = << >> THEN 0
              ELSE sel[k].ImageSizeInBytes[1]])

(* The identifiers of the calls cs, one after the other *)
RECURSIVE AllIds(_)
AllIds(cs) == IF cs = << >> THEN << >> ELSE Head(cs).ids \o AllIds(Tail(cs))

IsPrefix(s, t) == Len(s) <= Len(t) /\ s = SubSeq(t, 1, Len(s))

(* The counts of the repositories whose processRepository returned nil *)
DeletedOfSucceeded ==
    SumSeq([k \in DOMAIN returns |->
              IF returns[k].err = "nil" THEN returns[k].summary.ImagesDeleted ELSE 0])

FreedOfSucceeded ==
    SumSeq([k \in DOMAIN returns |->
              IF returns[k].err = "nil" THEN returns[k].summary.SpaceFreed ELSE 0])

(* The run is over and every repository of the list went through
   processRepository, in list order *)
AllProcessed ==
    /\ Len(returns) = Len(repos)
    /\ \A k \in DOMAIN repos :
         /\ returns[k].repo = repos[k]
         /\ \E m \in DOMAIN calls :
              calls[m].op = "ListImages" /\ calls[m].repo = repos[k]

FetchFailed(c) == c.op \in {"ListImages", "DescribeImages"} /\ ~c.ok

--------------------------------------------------------------------------
(* C4.  Dry-run non-mutation: with DryRun set no BatchDeleteImage call is
   ever issued, and the summary processRepository returns still holds the
   number of selected images and the sum of their known sizes. *)
C4_DryRunNoDelete ==
    cfg.DryRun =>
        /\ \A m \in DOMAIN calls : ~IsDelete(calls[m])
        /\ (pc = "procReturn" /\ procErr = "nil") =>
              /\ repoSummary.ImagesDeleted = Len(toDelete)
              /\ repoSummary.SpaceFreed = KnownBytes(toDelete)
        /\ summary.ImagesDeleted = DeletedOfSucceeded
        /\ summary.SpaceFreed = FreedOfSucceeded

(* A dry run ends having counted more than a batch of images *)
C4_Witness ==
    /\ cfg.DryRun
    /\ Returned /\ err = "nil"
    /\ summary.ImagesDeleted > BatchLimit
    /\ summary.SpaceFreed > 0
    /\ calls # << >>

(* C5.  Batch partitioning: every BatchDeleteImage call carries between 1
   and 100 identifiers; the identifiers sent so far are, in order, those of
   the first images of the list; and when deleteImages returns nil for N
   images it has issued ceil(N/100) calls whose identifier lists, one
   after the other, are the identifiers of the N images in input order. *)
C5_BatchPartition ==
    /\ \A m \in DOMAIN DeleteCalls :
         Len(DeleteCalls[m].ids) >= 1 /\ Len(DeleteCalls[m].ids) <= BatchLimit
    /\ Len(AllIds(DeleteCalls)) <= Len(toDelete)
    /\ \A k \in DOMAIN AllIds(DeleteCalls) :
         TagElseDigest(toDelete[k], AllIds(DeleteCalls)[k])
    /\ (pc = "procReturn" /\ procErr = "nil") =>
          /\ Len(DeleteCalls) = CeilDiv(Len(toDelete), BatchLimit)
          /\ Len(AllIds(DeleteCalls)) = Len(toDelete)

(* Two full batches and a batch of one *)
C5_Witness ==
    /\ pc = "procReturn" /\ procErr = "nil"
    /\ Len(toDelete) = 2 * BatchLimit + 1
    /\ Len(DeleteCalls) = 3
    /\ Len(DeleteCalls[3].ids) = 1

(* C6.  Partial-failure isolation: a repository whose image listing or
   description failed adds nothing to the aggregate, which holds the
   counts of the repositories that returned no error; a run that got its
   repository list ends with a nil error after every repository of the
   list, also those after the failed one, went through processRepository. *)
C6_FetchFailureIsolated ==
    /\ \A k \in DOMAIN returns :
         returns[k].err = "fetch" =>
            /\ returns[k].summary.ImagesDeleted = 0
            /\ returns[k].summary.SpaceFreed = 0
    /\ summary.ImagesDeleted = DeletedOfSucceeded
    /\ summary.SpaceFreed = FreedOfSucceeded
    /\ (Returned /\ err = "nil") => AllProcessed
    /\ (Returned /\ \E m \in DOMAIN calls : FetchFailed(calls[m])) => err = "nil"

(* The scenario of the spec: the listing of the first repository fails,
   the second has one image to delete *)
C6_Witness ==
    /\ Returned /\ err = "nil"
    /\ Len(returns) = 2
    /\ returns[1].err = "fetch"
    /\ returns[2].err = "nil"
    /\ summary = CleanupSummary(2, 1, returns[2].summary.SpaceFreed)

(* C7.  Repository-list failure is fatal: once a DescribeRepositories call
   has failed, on whatever page, the run is over with an error and the zero
   summary, the failed call is the last call, and no other kind of
   registry call was ever issued. *)
C7_ListFailureFatal ==
    (\E m \in DOMAIN calls : calls[m].op = "DescribeRepositories" /\ ~calls[m].ok)
    => /\ Returned
       /\ err # "nil"
       /\ summary = CleanupSummary(0, 0, 0)
       /\ ~calls[Len(calls)].ok
       /\ \A m \in DOMAIN calls : calls[m].op = "DescribeRepositories"
       /\ returns = << >>

(* The second page fails after the first returned a repository *)
C7_Witness ==
    /\ Returned /\ err # "nil"
    /\ Len(calls) = 2
    /\ repos # << >>

(* C8.  Delete-stage transport failure is repository-scoped: after a
   failed BatchDeleteImage call no further batch of that repository is
   sent, processRepository returns an error, the aggregate holds only the
   counts of the repositories that returned no error, every repository of
   the list is still processed and the run ends with a nil error. *)
C8_DeleteFailureScoped ==
    /\ \A m, n \in DOMAIN calls :
         (m < n /\ IsDelete(calls[m]) /\ ~calls[m].ok /\ IsDelete(calls[n]))
            => calls[n].repo # calls[m].repo
    /\ \A m \in DOMAIN calls :
         (IsDelete(calls[m]) /\ ~calls[m].ok) =>
            /\ (m = Len(calls) =>
                  pc # "delete" /\ (pc = "procReturn" => procErr = "delete"))
            /\ \A k \in DOMAIN returns :
                 returns[k].repo = calls[m].repo => returns[k].err = "delete"
    /\ summary.ImagesDeleted = DeletedOfSucceeded
    /\ summary.SpaceFreed = FreedOfSucceeded
    /\ (Returned /\ err = "nil") => AllProcessed
    /\ (Returned /\ \E m \in DOMAIN calls : IsDelete(calls[m]) /\ ~calls[m].ok)
          => err = "nil"

(* The first of two batches of the first repository fails; the second
   repository deletes its one image *)
C8_Witness ==
    /\ Returned /\ err = "nil"
    /\ Len(returns) = 2
    /\ returns[1].err = "delete"
    /\ returns[1].summary.ImagesDeleted = BatchLimit + 1
    /\ Len(DeleteCallsOf(repos[1])) = 1
    /\ returns[2].err = "nil"
    /\ Len(DeleteCallsOf(repos[2])) = 1
    /\ summary.ImagesDeleted = 1

(* C9.  Per-item failures are non-fatal: a repository all of whose
   BatchDeleteImage calls succeeded at transport level, whatever per-item
   failures the responses list, got every one of its batches sent and
   processRepository returned nil for it; and deleteImages goes on after
   such a response. *)
C9_ItemFailuresNonFatal ==
    /\ \A k \in DOMAIN returns :
         LET dc == DeleteCallsOf(returns[k].repo)
         IN (dc # << >> /\ \A m \in DOMAIN dc : dc[m].ok) =>
               /\ returns[k].err = "nil"
               /\ Len(dc) = CeilDiv(returns[k].summary.ImagesDeleted, BatchLimit)
    /\ (calls # << >> /\ IsDelete(calls[Len(calls)]) /\ calls[Len(calls)].ok
          /\ pc \in {"delete", "procReturn"})
          => /\ procErr = "nil"
             /\ (pc = "procReturn" => ~(i < Len(toDelete)))

(* The response to the first of two batches lists failures, the second
   batch is sent and the repository is counted *)
C9_Witness ==
    /\ Returned /\ err = "nil"
    /\ Len(returns) = 1
    /\ returns[1].err = "nil"
    /\ Len(DeleteCallsOf(repos[1])) = 2
    /\ DeleteCallsOf(repos[1])[1].failures # << >>
    /\ summary.ImagesDeleted = BatchLimit + 1

(* C10.  Identifier resolution: the identifier sent for an image is its
   first tag alone when it has tags and its digest alone otherwise, and the
   label of the dry-run report is that same tag or digest. *)
C10_TagElseDigest ==
    /\ \A k \in DOMAIN AllIds(DeleteCalls) :
         TagElseDigest(toDelete[k], AllIds(DeleteCalls)[k])
    /\ cfg.DryRun =>
         \A k \in DOMAIN log :
             log[k].label = IF Len(toDelete[k].ImageTags) > 0
                            THEN toDelete[k].ImageTags[1]
                            ELSE toDelete[k].ImageDigest[1]

(* One request carries an image with two tags and an untagged one *)
C10_Witness ==
    /\ Len(DeleteCalls) = 1
    /\ \E j, k \in DOMAIN toDelete :
         /\ Len(toDelete[j].ImageTags) = 2
         /\ DeleteCalls[1].ids[j].ImageTag = <<toDelete[j].ImageTags[1]>>
         /\ toDelete[k].ImageTags = << >>
         /\ toDelete[k].ImageDigest # << >>
         /\ DeleteCalls[1].ids[k].ImageDigest = toDelete[k].ImageDigest

--------------------------------------------------------------------------
(* selectImagesForDeletion on its own, called twice on the same slice *)

(* One call of selectImagesForDeletion(images, cfg): the slice is sorted in
   place and the deletion set returned.  The clock stands still between
   the two calls *)
SelectImagesCall ==
    /\ pc \in {"select1", "select2"}
    /\ \E sorted \in sortImagesByPushedTime(images) :
         /\ images' = sorted
         /\ cutoffTime' = <<CutoffOf(now, cfg)>>
         /\ toDelete' = selectImagesForDeletion(sorted, cfg, CutoffOf(now, cfg))
    /\ pc' = IF pc = "select1" THEN "select2" ELSE "selected"
    /\ UNCHANGED <<cfg, now, listing, content, repos, nextToken, repoIdx,
                   listResp, i, repoSummary, procErr, summary, err, calls,
                   returns, log, exitCode>>

InitSelect ==
    /\ cfg \in Configs
    /\ now = Now0
    /\ images \in ImageLists
    /\ listing = <<<<Repo(1)>>>>
    /\ content = << >>
    /\ pc = "select1"
    /\ repos = <<Repo(1)>>
    /\ nextToken = << >>
    /\ repoIdx = 0
    /\ listResp = NoListResp
    /\ cutoffTime = << >>
    /\ toDelete = << >>
    /\ i = 0
    /\ repoSummary = CleanupSummary(1, 0, 0)
    /\ procErr = "nil"
    /\ summary = CleanupSummary(1, 0, 0)
    /\ err = "nil"
    /\ calls = << >>
    /\ returns = << >>
    /\ log = << >>
    /\ exitCode = << >>

NextSelect == SelectImagesCall

SpecSelect == InitSelect /\ [][NextSelect]_vars

(* C11.  Idempotence of selection: a second call of
   selectImagesForDeletion on the slice the first call left behind, with
   the same policy at the same instant, returns the same set of images,
   also when images share a push time at the keep-window boundary. *)
C11_Idempotent ==
    [][pc = "select2" => Range(toDelete') = Range(toDelete)]_vars

(* The second call has returned for two images pushed on the same day
   before the cutoff, one of them inside the keep window *)
C11_Witness ==
    /\ pc = "selected"
    /\ cfg.MaxImages = 1
    /\ Len(images) = 2
    /\ Known(images[1]) /\ Known(images[2])
    /\ PushedAt(images[1]) = PushedAt(images[2])
    /\ PushedAt(images[1]) < cutoffTime[1]
    /\ Len(toDelete) = 1

--------------------------------------------------------------------------
(* Vocabulary of the call history *)

(* A call made on behalf of one repository *)
OfRepo(c) == c.op \in {"ListImages", "DescribeImages", "BatchDeleteImage"}

(* The 1-based position of a repository in the list *)
RepoIndex(name) == CHOOSE k \in DOMAIN repos : repos[k] = name

(* C12.  Sequential list-order processing: every registry call is answered
   in the step that issues it, so at most one is in flight; the calls that
   list the repositories precede all others; and every call for the
   repository at list index i precedes every call for a repository at an
   index j > i, none being issued for a repository the loop has not
   reached. *)
C12_ListOrder ==
    /\ \A m, n \in DOMAIN calls :
         (m < n /\ OfRepo(calls[m])) =>
             /\ OfRepo(calls[n])
             /\ RepoIndex(calls[m].repo) <= RepoIndex(calls[n].repo)
    /\ \A m \in DOMAIN calls :
         OfRepo(calls[m]) =>
             /\ calls[m].ok \in BOOLEAN
             /\ calls[m].repo \in Range(repos)
             /\ RepoIndex(calls[m].repo) <= repoIdx + 1

(* Both repositories of a list of two had images deleted, the first
   before the second *)
C12_Witness ==
    /\ Returned
    /\ Len(repos) = 2
    /\ DeleteCallsOf(repos[1]) # << >>
    /\ DeleteCallsOf(repos[2]) # << >>
    /\ calls[Len(calls)].repo = repos[2]

--------------------------------------------------------------------------
(* Vocabulary of the summary *)

(* The number of repositories on all the pages of the listing *)
ListedRepositories == SumSeq([k \in DOMAIN listing |-> Len(listing[k])])

(* Some processRepository call has returned an error *)
SomeRepositoryFailed == \E k \in DOMAIN returns : returns[k].err # "nil"

(* C13.  When the run returns without a fatal error, the aggregate
   RepositoriesProcessed is the number of repositories on all the pages of
   the listing, however many of them failed during processing. *)
C13_RepositoriesProcessed ==
    (Returned /\ err = "nil") =>
        summary.RepositoriesProcessed = ListedRepositories

(* Two repositories listed on two pages, both failed, and both counted *)
C13_Witness ==
    /\ Returned /\ err = "nil"
    /\ Len(listing) = 2 /\ Len(listing[1]) = 1 /\ Len(listing[2]) = 1
    /\ \A k \in DOMAIN returns : returns[k].err # "nil"
    /\ summary.RepositoriesProcessed = 2

(* C14.  Aggregate accumulation: when the run returns without a fatal
   error, the aggregate ImagesDeleted and SpaceFreed are the sums of the
   ImagesDeleted and SpaceFreed that processRepository returned for
   exactly the repositories for which it returned no error. *)
C14_AggregateSums ==
    (Returned /\ err = "nil") =>
        /\ summary.ImagesDeleted = DeletedOfSucceeded
        /\ summary.SpaceFreed = FreedOfSucceeded

(* Of two repositories with images to delete both succeeded and both are
   in the sums *)
C14_Witness ==
    /\ Returned /\ err = "nil"
    /\ Len(returns) = 2
    /\ \A k \in DOMAIN returns :
         /\ returns[k].err = "nil"
         /\ returns[k].summary.ImagesDeleted > 0
         /\ returns[k].summary.SpaceFreed > 0
    /\ summary.ImagesDeleted
         = returns[1].summary.ImagesDeleted + returns[2].summary.ImagesDeleted

(* C15.  Exit status: the entry point returns exit code 0 whenever the
   repository list was fetched, even if every repository failed during
   processing, and a non-zero exit code when the fetch of the list
   failed. *)
C15_ExitStatus ==
    exitCode # << >> =>
        /\ (\A m \in DOMAIN calls :
               calls[m].op = "DescribeRepositories" => calls[m].ok)
             => exitCode = <<0>>
        /\ (\E m \in DOMAIN calls :
               calls[m].op = "DescribeRepositories" /\ ~calls[m].ok)
             => exitCode[1] # 0

(* Exit code 0 after both repositories of the list failed *)
C15_Witness ==
    /\ exitCode = <<0>>
    /\ Len(returns) = 2
    /\ \A k \in DOMAIN returns : returns[k].err # "nil"

--------------------------------------------------------------------------
(* Vocabulary of the pagination *)

(* The pages ps[1..n] one after the other *)
RECURSIVE Flatten(_, _)
Flatten(ps, n) == IF n = 0 THEN << >> ELSE Flatten(ps, n - 1) \o ps[n]

DescribeRepositoriesCalls ==
    SelectSeq(calls, LAMBDA c : c.op = "DescribeRepositories")

(* C16.  Repository pagination: getRepositories issues one
   DescribeRepositories call per page, the first with a nil NextToken and
   call k+1 with the continuation token of page k; it stops at the first
   page without a continuation token; and what it returns is the
   concatenation of the repositories of all pages in page order. *)
C16_RepositoryPagination ==
    LET D == DescribeRepositoriesCalls
        n == Len(listing)
    IN /\ Len(D) <= n
       /\ \A k \in DOMAIN D :
            /\ D[k].token = IF k = 1 THEN << >> ELSE TokenAfter(k - 1, n)
            /\ k < Len(D) => D[k].ok
       /\ (pc = "getRepositories") => repos = Flatten(listing, Len(D))
       /\ (pc # "getRepositories" /\ err = "nil") =>
            /\ Len(D) = n
            /\ repos = Flatten(listing, n)

(* Two repositories on two pages were fetched by two calls, the second
   with the token of the first page *)
C16_Witness ==
    /\ pc = "range"
    /\ Len(listing) = 2 /\ Len(listing[1]) = 1 /\ Len(listing[2]) = 1
    /\ Len(DescribeRepositoriesCalls) = 2
    /\ DescribeRepositoriesCalls[2].token = <<2>>
    /\ repos = <<Repo(1), Repo(2)>>

(* The images that successful DescribeImages calls for the repository
   name returned before call number m *)
DescribedBefore(name, m) ==
    UNION {Range(Pages(name)[k]) :
             k \in {k \in DOMAIN Pages(name) :
                      \E j \in 1..(m - 1) :
                          /\ calls[j].op = "DescribeImages"
                          /\ calls[j].repo = name
                          /\ calls[j].ok
                          /\ calls[j].ids = ListImagesOutput(name, k).ImageIds}}

(* The identifier that stands for an image: its first tag alone, or else
   its digest alone *)
IdFor(img) ==
    IF Len(img.ImageTags) > 0
    THEN [ImageTag |-> <<img.ImageTags[1]>>, ImageDigest |-> << >>]
    ELSE [ImageTag |-> << >>, ImageDigest |-> img.ImageDigest]

(* C17.  No cross-repository deletion: every identifier sent in a
   BatchDeleteImage call for a repository is the tag, or else the digest,
   of an image that a DescribeImages call for that same repository
   returned earlier in the run. *)
C17_NoCrossRepositoryDeletion ==
    \A m \in DOMAIN calls :
        IsDelete(calls[m]) =>
            LET described == DescribedBefore(calls[m].repo, m)
            IN Range(calls[m].ids) \subseteq {IdFor(img) : img \in described}

(* Images were deleted from two repositories of different contents, the
   second after the first *)
C17_Witness ==
    /\ Len(repos) = 2
    /\ content[repos[1]] = 3 /\ content[repos[2]] = 2
    /\ DeleteCallsOf(repos[1]) # << >>
    /\ DeleteCallsOf(repos[2]) # << >>
    /\ DeleteCallsOf(repos[1])[1].ids # DeleteCallsOf(repos[2])[1].ids

(* What a call was issued with *)
Args(c) ==
    CASE c.op = "DescribeRepositories" -> <<c.op, c.token>>
      [] c.op = "ListImages"           -> <<c.op, c.repo, c.token>>
      [] OTHER                         -> <<c.op, c.repo, c.ids>>

(* C18.  No retries: within one run no registry call is issued twice with
   the same arguments, so a call that failed is never reissued; each page
   of a repository is listed at most once and each chunk of a repository
   is sent for deletion at most once. *)
C18_NoRetries ==
    \A m, n \in DOMAIN calls : m < n => Args(calls[m]) # Args(calls[n])

(* A ListImages call and a BatchDeleteImage call have failed
   in one run, which went on to its end *)
C18_Witness ==
    /\ Returned
    /\ \E m \in DOMAIN calls : calls[m].op = "ListImages" /\ ~calls[m].ok
    /\ \E m \in DOMAIN calls : IsDelete(calls[m]) /\ ~calls[m].ok

--------------------------------------------------------------------------
(* C19.  Empty selection: when the deletion set of a repository is empty,
   an empty repository included, processRepository is at its return right
   after the selection, with no images deleted, no space freed and no
   error, and no BatchDeleteImage call is issued, in dry-run and in real
   mode alike. *)
C19_EmptySelection ==
    (Selected /\ toDelete = << >>) =>
        /\ pc = "procReturn"
        /\ procErr = "nil"
        /\ repoSummary.ImagesDeleted = 0
        /\ repoSummary.SpaceFreed = 0
        /\ DeleteCalls = << >>

(* A real run on a repository whose three images are all too new *)
C19_Witness ==
    /\ Selected
    /\ ~cfg.DryRun
    /\ Len(images) = 3
    /\ \A k \in DOMAIN images : Known(images[k])
    /\ toDelete = << >>
    /\ pc = "procReturn"

(* C20.  Bytes freed: the SpaceFreed of the summary of a repository is the
   sum of the sizes of the selected images whose size is known; a selected
   image without a size adds zero, and an image that is not selected adds
   nothing. *)
C20_BytesFreed ==
    Selected =>
        repoSummary.SpaceFreed =
            SumSeq([k \in DOMAIN images |->
                      IF /\ images[k] \in Range(toDelete)
                         /\ images[k].ImageSizeInBytes # << >>
                      THEN images[k].ImageSizeInBytes[1]
                      ELSE 0])

(* Of three images the sized one that is kept adds nothing, and of the two
   selected one has a size and the other has none *)
C20_Witness ==
    /\ Selected
    /\ Len(images) = 3 /\ Len(toDelete) = 2
    /\ images[1].ImageSizeInBytes # << >>
    /\ images[1] \notin Range(toDelete)
    /\ toDelete[1].ImageSizeInBytes = << >>
    /\ toDelete[2].ImageSizeInBytes # << >>
    /\ repoSummary.SpaceFreed = toDelete[2].ImageSizeInBytes[1]

--------------------------------------------------------------------------
(* Vocabulary of the malformed image *)

(* An image with neither a tag nor a digest *)
Malformed(img) == img.ImageTags = << >> /\ img.ImageDigest = << >>

(* An identifier with both fields empty *)
EmptyId(id) == id.ImageTag = << >> /\ id.ImageDigest = << >>

(* C21.  Malformed image handling in the delete batch: an image that has
   neither a tag nor a digest is left out of the identifier list, so that
   no identifier with both fields empty is ever sent to BatchDeleteImage
   and a request carries one identifier for each well-formed image of its
   chunk. *)
C21_MalformedOmitted ==
    /\ \A m \in DOMAIN DeleteCalls :
         \A j \in DOMAIN DeleteCalls[m].ids : ~EmptyId(DeleteCalls[m].ids[j])
    /\ Len(AllIds(DeleteCalls))
         <= Cardinality({k \in DOMAIN toDelete : ~Malformed(toDelete[k])})

(* A real run has sent a request for a selection that holds a malformed
   image *)
C21_Witness ==
    /\ ~cfg.DryRun
    /\ Len(DeleteCalls) = 1
    /\ \E k \in DOMAIN toDelete : Malformed(toDelete[k])

(* C22.  Malformed image labelling: the label of an image or identifier
   with neither tag nor digest is "unknown" and computing it never fails:
   the dry-run report has a line for every selected image, with the label
   "unknown" for a malformed one, and the failure report has the label
   "unknown" for an identifier that is nil or empty. *)
C22_UnknownLabel ==
    /\ pc # "panic"
    /\ (Selected /\ cfg.DryRun /\ toDelete # << >>) =>
          /\ Len(log) = Len(toDelete)
          /\ \A k \in DOMAIN toDelete :
               Malformed(toDelete[k]) => log[k].label = Unknown
    /\ \A id \in {<< >>, <<ImageIdentifier(<< >>, << >>)>>} :
          getImageIdString(id) = Unknown

(* The dry-run report has reached a malformed image *)
C22_Witness ==
    /\ cfg.DryRun
    /\ Selected
    /\ \E k \in DOMAIN toDelete : Malformed(toDelete[k])

--------------------------------------------------------------------------
(* Vocabulary of the image fetch *)

IsFetch(c) == c.op \in {"ListImages", "DescribeImages"}

(* The positions before m of the calls op for the repository name *)
CallsBefore(op, name, m) ==
    {j \in 1..(m - 1) : calls[j].op = op /\ calls[j].repo = name}

NonEmptyPages(name) == {k \in DOMAIN Pages(name) : Pages(name)[k] # << >>}

(* C23.  Fetch-before-delete: a BatchDeleteImage call for a repository is
   issued only after every page of the repository was listed and every
   page with identifiers described, all successfully; a repository with a
   failed ListImages or DescribeImages call never gets a BatchDeleteImage
   call, and the images fetched before the failure count for nothing. *)
C23_FetchBeforeDelete ==
    /\ \A m \in DOMAIN calls :
         IsDelete(calls[m]) =>
            LET name == calls[m].repo
            IN /\ \A j \in DOMAIN calls :
                    (IsFetch(calls[j]) /\ calls[j].repo = name) =>
                        j < m /\ calls[j].ok
               /\ Cardinality(CallsBefore("ListImages", name, m))
                    = Len(Pages(name))
               /\ Cardinality(CallsBefore("DescribeImages", name, m))
                    = Cardinality(NonEmptyPages(name))
    /\ \A k \in DOMAIN returns :
         returns[k].err = "fetch" =>
            /\ returns[k].summary.ImagesDeleted = 0
            /\ returns[k].summary.SpaceFreed = 0
            /\ DeleteCallsOf(returns[k].repo) = << >>

(* The fetch of a repository failed on its second page, after a first
   page with an image past the cutoff, and the run went on *)
C23_Witness ==
    /\ Returned
    /\ Len(repos) = 1
    /\ content[repos[1]] = 3
    /\ Len(calls) = 5
    /\ calls[3].op = "DescribeImages" /\ calls[3].ok
    /\ calls[5].op = "DescribeImages" /\ ~calls[5].ok
    /\ returns[1].err = "fetch"

ListImagesCallsOf(name) ==
    SelectSeq(calls, LAMBDA c : c.op = "ListImages" /\ c.repo = name)

(* The page that the ListImages call at position m of the history asks for *)
PageAsked(m) ==
    Cardinality(CallsBefore("ListImages", calls[m].repo, m)) + 1

(* C24.  Image-detail pagination: getImageDetails issues one ListImages
   call per page, the first with a nil token and each next one with the
   token of the page before; a page with identifiers is followed by one
   DescribeImages call with exactly those identifiers and a page without
   identifiers by none; and the images it returns are the described images
   of all pages in page order. *)
C24_ImagePagination ==
    /\ \A m \in DOMAIN calls :
         calls[m].op = "ListImages" =>
            LET name == calls[m].repo
                k == PageAsked(m)
                n == Len(Pages(name))
                next == IF m < Len(calls) THEN <<calls[m + 1]>> ELSE << >>
            IN /\ k <= n
               /\ calls[m].token = IF k = 1 THEN << >> ELSE TokenAfter(k - 1, n)
               /\ (calls[m].ok /\ Pages(name)[k] # << >>) =>
                     IF next = << >> THEN pc = "describeImages"
                     ELSE /\ next[1].op = "DescribeImages"
                          /\ next[1].repo = name
                          /\ next[1].ids = ListImagesOutput(name, k).ImageIds
               /\ (calls[m].ok /\ Pages(name)[k] = << >> /\ next # << >>) =>
                     next[1].op # "DescribeImages"
    /\ \A m \in DOMAIN calls :
         calls[m].op = "DescribeImages" =>
            /\ m > 1
            /\ calls[m - 1].op = "ListImages"
            /\ calls[m - 1].ok
            /\ calls[m - 1].repo = calls[m].repo
    /\ pc = "select" =>
         /\ Len(ListImagesCallsOf(repoName)) = Len(Pages(repoName))
         /\ images = Flatten(Pages(repoName), Len(Pages(repoName)))

(* A repository of two pages with two images each was fetched by two
   ListImages and two DescribeImages calls *)
C24_Witness ==
    /\ pc = "select"
    /\ content[repoName] = 3
    /\ Len(ListImagesCallsOf(repoName)) = 2
    /\ Cardinality(CallsBefore("DescribeImages", repoName, Len(calls) + 1)) = 2
    /\ Len(images) = 4
    /\ ListImagesCallsOf(repoName)[2].token = <<2>>

--------------------------------------------------------------------------
(* Vocabulary of the order *)

(* s and t hold the same elements, each as many times *)
IsPermutationOf(s, t) ==
    /\ Len(s) = Len(t)
    /\ \A x \in Range(s) \cup Range(t) :
         Cardinality({k \in DOMAIN s : s[k] = x})
           = Cardinality({k \in DOMAIN t : t[k] = x})

KnownCount(s) == Cardinality({k \in DOMAIN s : Known(s[k])})

(* C25.  Sort order: the sequence sortImagesByPushedTime leaves behind is a
   permutation of its input in which every image with a known push time
   precedes every image without one, and the images with a known push
   time are in non-increasing order of push time. *)
C25_SortOrder ==
    [][pc = "select1" =>
          /\ IsPermutationOf(images', images)
          /\ \A j, k \in DOMAIN images' :
               (j < k /\ Known(images'[k])) => Known(images'[j])
          /\ \A j, k \in DOMAIN images' :
               (j < k /\ Known(images'[j]) /\ Known(images'[k]))
                  => PushedAt(images'[j]) >= PushedAt(images'[k])]_vars

(* Three images sorted: two of different days and one without a push
   time *)
C25_Witness ==
    /\ pc = "select2"
    /\ Len(images) = 3
    /\ Known(images[1]) /\ Known(images[2]) /\ ~Known(images[3])
    /\ PushedAt(images[1]) > PushedAt(images[2])

(* C26.  With MaxImages = K > 0, an image without a push time is in one of
   the K exempt positions only if fewer than K images have a known push
   time, and the K newest of the images with a known push time (all of
   them when there are fewer) keep their exemption. *)
C26_UnknownKeptLast ==
    (Selected /\ cfg.MaxImages > 0) =>
        /\ \A k \in 1..Min(cfg.MaxImages, Len(images)) :
             ~Known(images[k]) => KnownCount(images) < cfg.MaxImages
        /\ \A k \in 1..Min(cfg.MaxImages, KnownCount(images)) :
             /\ Known(images[k])
             /\ images[k] \notin Range(toDelete)

(* Two images past the cutoff fill the two exempt positions ahead of an
   image without a push time, and nothing is selected *)
C26_Witness ==
    /\ Selected
    /\ cfg.MaxImages = 2
    /\ Len(images) = 3
    /\ Known(images[1]) /\ PushedAt(images[1]) < cutoffTime[1]
    /\ Known(images[2]) /\ PushedAt(images[2]) < cutoffTime[1]
    /\ ~Known(images[3])
    /\ toDelete = << >>

--------------------------------------------------------------------------
(* Vocabulary of the deletions *)

(* A BatchDeleteImage call for the repository name failed in transport *)
DeleteFailedFor(name) ==
    \E m \in DOMAIN calls :
        IsDelete(calls[m]) /\ calls[m].repo = name /\ ~calls[m].ok

(* The number of identifiers sent in the calls whose transport succeeded *)
IdsSentOk ==
    SumSeq([m \in DOMAIN calls |->
              IF IsDelete(calls[m]) /\ calls[m].ok
              THEN Len(calls[m].ids) ELSE 0])

(* The same, leaving out the repositories of which a call failed *)
IdsSentOkUnfailed ==
    SumSeq([m \in DOMAIN calls |->
              IF IsDelete(calls[m]) /\ calls[m].ok
                 /\ ~DeleteFailedFor(calls[m].repo)
              THEN Len(calls[m].ids) ELSE 0])

(* C27.  In a real run the aggregate ImagesDeleted never exceeds the number
   of identifiers sent in BatchDeleteImage calls whose transport
   succeeded; at the end it equals that number when no BatchDeleteImage
   call failed in transport; and the identifiers of the chunks that
   succeeded for a repository of which a later chunk failed are not in
   it. *)
C27_ReportedDeletions ==
    ~cfg.DryRun =>
        /\ summary.ImagesDeleted <= IdsSentOk
        /\ (Returned /\ err = "nil") =>
              summary.ImagesDeleted
                 = IdsSentOkUnfailed

(* The second chunk of the first repository failed after its first chunk
   of BatchLimit identifiers succeeded; only the one image of the second
   repository is reported *)
C27_Witness ==
    /\ ~cfg.DryRun
    /\ Returned /\ err = "nil"
    /\ Len(repos) = 2
    /\ DeleteFailedFor(repos[1])
    /\ DeleteCallsOf(repos[1])[1].ok
    /\ Len(DeleteCallsOf(repos[2])) = 1 /\ DeleteCallsOf(repos[2])[1].ok
    /\ summary.ImagesDeleted = 1
    /\ IdsSentOk = BatchLimit + 1

--------------------------------------------------------------------------
(* processRepository in dry-run mode and then for real, on the same images
   at the same instant *)

(* No two dated images of the list were pushed on the same day, so that
   both runs put the images in the same order *)
NoDatedTies(s) ==
    \A j, k \in DOMAIN s :
        (j < k /\ s[j].ImagePushedAt # << >> /\ s[k].ImagePushedAt # << >>)
            => s[j].ImagePushedAt # s[k].ImagePushedAt

(* The dry run has returned: its summary is kept and processRepository is
   called again with DryRun off *)
RealRunAfterDryRun ==
    /\ pc = "procReturn"
    /\ cfg.DryRun
    /\ cfg' = [cfg EXCEPT !.DryRun = FALSE]
    /\ returns' = Append(returns, [repo |-> repoName, err |-> procErr,
                                   summary |-> repoSummary])
    /\ pc' = "select"
    /\ UNCHANGED <<now, listing, content, repos, nextToken, repoIdx,
                   listResp, images, cutoffTime, toDelete, i, repoSummary,
                   procErr, summary, err, calls, log, exitCode>>

InitPreview ==
    /\ cfg \in {c \in Configs : c.DryRun}
    /\ now = MaxNow
    /\ images \in {s \in ImageLists : NoDatedTies(s)}
    /\ listing = <<<<Repo(1)>>>>
    /\ content = << >>
    /\ pc = "select"
    /\ repos = <<Repo(1)>>
    /\ nextToken = << >>
    /\ repoIdx = 0
    /\ listResp = NoListResp
    /\ cutoffTime = << >>
    /\ toDelete = << >>
    /\ i = 0
    /\ repoSummary = CleanupSummary(1, 0, 0)
    /\ procErr = "nil"
    /\ summary = CleanupSummary(1, 0, 0)
    /\ err = "nil"
    /\ calls = << >>
    /\ returns = << >>
    /\ log = << >>
    /\ exitCode = << >>

NextPreview ==
    \/ ProcessSelect
    \/ RealRunAfterDryRun
    \/ BatchDeleteImageCall
    \/ DeleteImagesReturn

SpecPreview == InitPreview /\ [][NextPreview]_vars

(* The labels of the dry-run report, in order *)
DryRunLabels ==
    LET lines == SelectSeq(log, LAMBDA l : l.kind = "dryrun")
    IN [k \in DOMAIN lines |-> lines[k].label]

(* The tag, or else the digest, that an identifier carries *)
IdText(id) ==
    IF id.ImageTag # << >> THEN id.ImageTag[1]
    ELSE IF id.ImageDigest # << >> THEN id.ImageDigest[1]
    ELSE Unknown

(* C28.  Dry-run is a faithful preview: for the same images, policy and
   instant, the dry run returns a summary, and when no registry call fails
   the real run returns the same summary and sends in its delete calls
   exactly the identifiers that the dry run reported. *)
C28_FaithfulPreview ==
    /\ pc # "panic"
    /\ (/\ ~cfg.DryRun
        /\ pc = "procReturn"
        /\ \A m \in DOMAIN calls : calls[m].ok)
       => /\ returns[1].err = "nil" /\ procErr = "nil"
          /\ returns[1].summary = repoSummary
          /\ DryRunLabels
               = [k \in DOMAIN AllIds(DeleteCalls) |->
                    IdText(AllIds(DeleteCalls)[k])]

(* The real run has deleted the two images that the dry run reported *)
C28_Witness ==
    /\ ~cfg.DryRun
    /\ pc = "procReturn"
    /\ Len(DeleteCalls) = 1 /\ DeleteCalls[1].ok
    /\ Len(DryRunLabels) = 2
    /\ returns[1].summary.ImagesDeleted = 2

--------------------------------------------------------------------------
(* C29.  A negative age threshold is not rejected: with Days < 0 the cutoff
   lies after the evaluation instant, and every image outside the keep
   window with a known push time before now + |Days| is selected, an image
   pushed at the evaluation instant included; with MaxImages <= 0 that is
   every image with a known push time up to the evaluation instant. *)
C29_NegativeDays ==
    (Selected /\ cfg.Days < 0) =>
        /\ cutoffTime[1] = now + (0 - cfg.Days)
        /\ cutoffTime[1] > now
        /\ \A k \in DOMAIN images :
             (/\ k > cfg.MaxImages
              /\ Known(images[k])
              /\ PushedAt(images[k]) < now + (0 - cfg.Days))
                => images[k] \in Range(toDelete)
        /\ cfg.MaxImages <= 0 =>
             \A k \in DOMAIN images :
                 (Known(images[k]) /\ PushedAt(images[k]) <= now)
                    => images[k] \in Range(toDelete)

(* With Days = -1 and no keep window an image pushed at the evaluation
   instant is selected *)
C29_Witness ==
    /\ Selected
    /\ cfg.Days = 0 - 1
    /\ cfg.MaxImages = 0
    /\ Len(images) = 2
    /\ Known(images[1]) /\ PushedAt(images[1]) = now
    /\ images[1] \in Range(toDelete)
    /\ Len(toDelete) = 2

--------------------------------------------------------------------------
(* The runs against a registry whose repositories all hold the same
   contents *)
InitFair == Init /\ \A a, b \in DOMAIN content : content[a] = content[b]

(* The run under the scheduling of one thread whose registry calls all
   return: a step that can be taken is taken *)
FairSpec == InitFair /\ [][Next]_vars /\ WF_vars(Next)

(* The run has ended: the entry point has returned its exit code, for a
   summary or for a fatal error, or the process has crashed *)
Ended == pc \in {"exit", "panic"}

(* C30.  Termination: when every registry call returns and every listing
   ends with a page without a continuation token, the run eventually
   ends, with the aggregate summary or with a fatal error; and the loop of
   deleteImages makes at most ceil(N / 100) calls for the N images it was
   given, whatever the responses. *)
C30_Termination ==
    /\ <>Ended
    /\ [](pc \in {"delete", "procReturn"} =>
            Len(DeleteCallsOf(repoName)) <= CeilDiv(Len(toDelete), BatchLimit))

(* The run has ended after a second call of the delete loop failed *)
C30_Witness ==
    /\ pc = "exit"
    /\ Len(repos) = 1
    /\ Len(DeleteCalls) = 2
    /\ ~DeleteCalls[2].ok

==========================================================================
